---- MODULE Spec2Model ----
(***************************************************************************)
(* Model of px-diag-analyzer.py: an offline shell over an extracted        *)
(* Portworx diagnostic bundle.                                             *)
(*                                                                         *)
(* Text is modelled by TLA+ strings; the Python string methods the program *)
(* uses (strip, split, startswith, "in", isdigit, join) are operators that *)
(* work character by character.  Python's unbounded integers are kept as   *)
(* sequences of base-1024 digits (most significant first), so byte counts  *)
(* beyond the 32-bit integers of TLC can be reached.                       *)
(***************************************************************************)
EXTENDS Integers, Sequences, FiniteSets, TLC

None == "<None>"

(***************************************************************************)
(* Python string primitives                                                *)
(***************************************************************************)
Ch(s, i) == SubSeq(s, i, i)

Whitespace == {" ", "\t"}

DigitChars == {"0", "1", "2", "3", "4", "5", "6", "7", "8", "9"}

\* str.lstrip() / str.rstrip() / str.strip()
RECURSIVE lstrip(_)
lstrip(s) ==
    IF Len(s) > 0 /\ Ch(s, 1) \in Whitespace
    THEN lstrip(SubSeq(s, 2, Len(s)))
    ELSE s

RECURSIVE rstrip(_)
rstrip(s) ==
    IF Len(s) > 0 /\ Ch(s, Len(s)) \in Whitespace
    THEN rstrip(SubSeq(s, 1, Len(s) - 1))
    ELSE s

strip(s) == rstrip(lstrip(s))

\* str.startswith(prefix)
startswith(s, p) == Len(s) >= Len(p) /\ SubSeq(s, 1, Len(p)) = p

\* the Python operator "p in s" on strings: p occurs as a contiguous substring
contains(s, p) ==
    \E i \in 1..(Len(s) - Len(p) + 1) : SubSeq(s, i, i + Len(p) - 1) = p

\* str.isdigit(): non-empty and every character is a digit
isdigit(s) == Len(s) > 0 /\ \A i \in 1..Len(s) : Ch(s, i) \in DigitChars

\* str.split() with no argument: maximal runs of non-whitespace characters
RECURSIVE SplitFrom(_, _, _)
SplitFrom(s, i, cur) ==
    IF i > Len(s)
    THEN IF cur = "" THEN <<>> ELSE <<cur>>
    ELSE IF Ch(s, i) \in Whitespace
         THEN IF cur = ""
              THEN SplitFrom(s, i + 1, "")
              ELSE <<cur>> \o SplitFrom(s, i + 1, "")
         ELSE SplitFrom(s, i + 1, cur \o Ch(s, i))

split(s) == SplitFrom(s, 1, "")

\* sep.join(parts)
RECURSIVE join(_, _)
join(sep, parts) ==
    IF parts = <<>> THEN ""
    ELSE IF Len(parts) = 1 THEN parts[1]
    ELSE parts[1] \o sep \o join(sep, Tail(parts))

\* [p for p in parts if p != "-j"]
RECURSIVE WithoutJ(_)
WithoutJ(parts) ==
    IF parts = <<>> THEN <<>>
    ELSE (IF parts[1] # "-j" THEN <<parts[1]>> ELSE <<>>)
         \o WithoutJ(Tail(parts))

\* (p for p in parts if p.isdigit())
RECURSIVE DigitTokens(_)
DigitTokens(parts) ==
    IF parts = <<>> THEN <<>>
    ELSE (IF isdigit(parts[1]) THEN <<parts[1]>> ELSE <<>>)
         \o DigitTokens(Tail(parts))

\* (p for p in parts if not p.isdigit())
RECURSIVE NonDigitTokens(_)
NonDigitTokens(parts) ==
    IF parts = <<>> THEN <<>>
    ELSE (IF ~isdigit(parts[1]) THEN <<parts[1]>> ELSE <<>>)
         \o NonDigitTokens(Tail(parts))

\* index of the first "|" of s, 0 when there is none (cmd.split("|", 1))
RECURSIVE FindPipe(_, _)
FindPipe(s, i) ==
    IF i > Len(s) THEN 0
    ELSE IF Ch(s, i) = "|" THEN i
    ELSE FindPipe(s, i + 1)

(***************************************************************************)
(* parse_command                                                           *)
(***************************************************************************)
\* a variant that drops only the first digit-only token from the base command
RECURSIVE DropFirstDigit(_)
DropFirstDigit(parts) ==
    IF parts = <<>> THEN <<>>
    ELSE IF isdigit(parts[1]) THEN Tail(parts)
    ELSE <<parts[1]>> \o DropFirstDigit(Tail(parts))

RECURSIVE DropFirstJ(_)
DropFirstJ(parts) ==
    IF parts = <<>> THEN <<>>
    ELSE IF parts[1] = "-j" THEN Tail(parts)
    ELSE <<parts[1]>> \o DropFirstJ(Tail(parts))

parse_command_first_digit_only(cmd) ==
    LET parts0 == split(cmd)
        parts  == WithoutJ(parts0)
        digits == DigitTokens(parts)
    IN [base_cmd |-> join(" ", DropFirstDigit(parts)),
        is_json  |-> \E i \in 1..Len(parts0) : parts0[i] = "-j",
        vol_id   |-> IF digits = <<>> THEN None ELSE digits[1]]

parse_command_first_j_only(cmd) ==
    LET parts0 == split(cmd)
        parts  == DropFirstJ(parts0)
        digits == DigitTokens(parts)
    IN [base_cmd |-> join(" ", NonDigitTokens(parts)),
        is_json  |-> \E i \in 1..Len(parts0) : parts0[i] = "-j",
        vol_id   |-> IF digits = <<>> THEN None ELSE digits[1]]

parse_command(cmd) ==
    LET parts0 == split(cmd)
        parts  == WithoutJ(parts0)
        digits == DigitTokens(parts)
    IN [base_cmd |-> join(" ", NonDigitTokens(parts)),
        is_json  |-> \E i \in 1..Len(parts0) : parts0[i] = "-j",
        vol_id   |-> IF digits = <<>> THEN None ELSE digits[1]]

(***************************************************************************)
(* human_size                                                              *)
(*                                                                         *)
(* A byte count is a non-empty sequence of base-1024 digits, most          *)
(* significant first, without a leading zero (zero itself is <<0>>).       *)
(* b < 1024 is "one digit"; b //= 1024 drops the last digit.               *)
(***************************************************************************)
Units == <<"B", "KiB", "MiB", "GiB", "TiB">>

Below1024(b) == Len(b) = 1

FloorDiv1024(b) == IF Len(b) = 1 THEN <<0>> ELSE SubSeq(b, 1, Len(b) - 1)

RECURSIVE human_size_loop(_, _)
human_size_loop(b, k) ==
    IF k > Len(Units) THEN None
    ELSE IF Below1024(b) THEN ToString(b[1]) \o " " \o Units[k]
    ELSE human_size_loop(FloorDiv1024(b), k + 1)

human_size(b) == human_size_loop(b, 1)

(***************************************************************************)
(* COMMAND_MAP                                                             *)
(***************************************************************************)
\* a variant in which one abbreviation points at another artifact
COMMAND_MAP_alias_drift ==
    ("journalctl" :> <<"misc", "all-journalctl.out">>) @@
    ("lsblk" :> <<"misc", "lsblk.out">>) @@
    ("blkid" :> <<"misc", "blkid.out">>) @@
    ("ip addr show" :> <<"misc", "ip.out">>) @@
    ("mount" :> <<"misc", "mount.out">>) @@
    ("uptime" :> <<"misc", "uptime.out">>) @@
    ("date" :> <<"misc", "date.out">>) @@
    ("pxctl version" :> <<"misc", "px-version.out">>) @@
    ("pxctl status" :> <<"misc", "px-status.out">>) @@
    ("pxctl service kvdb members" :> <<"misc", "px-kvdb.out">>) @@
    ("pxctl sv k m" :> <<"misc", "px-kvdb.out">>) @@
    ("pxctl alerts show" :> <<"misc", "px-alerts.out">>) @@
    ("pxctl a s" :> <<"misc", "px-alerts-show.out">>) @@
    ("pxctl alerts show -j" :> <<"misc", "px-alerts-show.out">>) @@
    ("pxctl a s -j" :> <<"misc", "px-alerts-show.out">>) @@
    ("pxctl clouddrive list" :> <<"misc", "px-clouddrive-list.out">>) @@
    ("pxctl cd l" :> <<"misc", "px-clouddrive-list.out">>)

COMMAND_MAP ==
    ("journalctl" :> <<"misc", "all-journalctl.out">>) @@
    ("lsblk" :> <<"misc", "lsblk.out">>) @@
    ("blkid" :> <<"misc", "blkid.out">>) @@
    ("ip addr show" :> <<"misc", "ip.out">>) @@
    ("mount" :> <<"misc", "mount.out">>) @@
    ("uptime" :> <<"misc", "uptime.out">>) @@
    ("date" :> <<"misc", "date.out">>) @@
    ("pxctl version" :> <<"misc", "px-version.out">>) @@
    ("pxctl status" :> <<"misc", "px-status.out">>) @@
    ("pxctl service kvdb members" :> <<"misc", "px-kvdb.out">>) @@
    ("pxctl sv k m" :> <<"misc", "px-kvdb.out">>) @@
    ("pxctl alerts show" :> <<"misc", "px-alerts.out">>) @@
    ("pxctl a s" :> <<"misc", "px-alerts.out">>) @@
    ("pxctl alerts show -j" :> <<"misc", "px-alerts-show.out">>) @@
    ("pxctl a s -j" :> <<"misc", "px-alerts-show.out">>) @@
    ("pxctl clouddrive list" :> <<"misc", "px-clouddrive-list.out">>) @@
    ("pxctl cd l" :> <<"misc", "px-clouddrive-list.out">>)

(***************************************************************************)
(* The extracted bundle                                                    *)
(*                                                                         *)
(* tar_ok    : tarfile.open and the extraction succeed                     *)
(* diagfiles : <root>/var/lib/osd/diagfiles exists                         *)
(* misc_dir  : some node directory under it has a misc sub-directory       *)
(* etc_dir   : some node directory under it has an etc/pwx sub-directory   *)
(* absent    : artifact names that are not in the bundle                   *)
(* empty     : artifact names whose file has no line                       *)
(* volumes   : "ok" when px-volumes.out is valid JSON, else "malformed"    *)
(* dataset   : the records of px-volumes.out when it is valid              *)
(***************************************************************************)
Vol100 ==
    [id |-> "100", name |-> "pvc-a", size |-> <<2, 0, 0, 0>>, ha_level |-> 1,
     sharedv4 |-> TRUE, shared |-> TRUE, encrypted |-> FALSE,
     proxy_volume |-> FALSE, cos |-> "high", status |-> "up",
     attached_on |-> "10.0.0.1", format |-> "ext4", ctime |-> "t0",
     detach_time |-> "", device_path |-> "/dev/pxd/pxd100",
     usage |-> <<5, 0>>, volume_labels |-> <<<<"app", "db">>>>,
     mount_options |-> <<"discard">>,
     replica_sets |-> <<[nodes |-> <<"n1", "n2">>, pool_uuids |-> <<"p1", "p2">>]>>]

Vol200 ==
    [id |-> "200", name |-> "", size |-> <<1, 0>>, ha_level |-> 2,
     sharedv4 |-> FALSE, shared |-> FALSE, encrypted |-> TRUE,
     proxy_volume |-> TRUE, cos |-> "", status |-> "up",
     attached_on |-> "", format |-> "", ctime |-> "",
     detach_time |-> "", device_path |-> "",
     usage |-> <<0>>, volume_labels |-> <<>>,
     mount_options |-> <<>>, replica_sets |-> <<>>]

\* a volume of one pebibyte
VolPiB ==
    [Vol200 EXCEPT !.id = "7", !.size = <<1, 0, 0, 0, 0, 0>>, !.shared = TRUE]

GoodBundle ==
    [tar_ok |-> TRUE, diagfiles |-> TRUE, misc_dir |-> TRUE, etc_dir |-> TRUE,
     absent |-> {}, empty |-> {}, volumes |-> "ok",
     dataset |-> <<Vol100, Vol200>>]

Bundles ==
    { GoodBundle,
      [GoodBundle EXCEPT !.tar_ok = FALSE],
      [GoodBundle EXCEPT !.diagfiles = FALSE, !.misc_dir = FALSE, !.etc_dir = FALSE],
      [GoodBundle EXCEPT !.misc_dir = FALSE],
      [GoodBundle EXCEPT !.etc_dir = FALSE],
      [GoodBundle EXCEPT !.absent = {"px-volumes.out", "lsblk.out", "config.json"}],
      [GoodBundle EXCEPT !.volumes = "malformed"],
      [GoodBundle EXCEPT !.empty = {"lsblk.out", "px-alerts.out"}],
      [GoodBundle EXCEPT !.dataset = <<Vol100, VolPiB, Vol200>>],
      [GoodBundle EXCEPT !.dataset = <<>>] }

\* the lines of an artifact, without their line terminator
FileLines(fs, fname) ==
    IF fname \in fs.empty THEN <<>>
    ELSE <<fname \o " alpha", "beta gamma  ", "alpha beta", "">>

\* os.path.join(dir, fname) followed by open(): the error raised, or None
OpenError(fs, dir, fname) ==
    IF dir = None THEN "TypeError"
    ELSE IF fname \in fs.absent THEN "FileNotFoundError"
    ELSE None

(***************************************************************************)
(* extract_diag, find_misc_folder, find_etc_folder                         *)
(***************************************************************************)
extract_diag(fs) ==
    [created |-> TRUE,
     error   |-> IF fs.tar_ok THEN None ELSE "ReadError"]

find_misc_folder(fs) ==
    IF ~fs.diagfiles THEN [error |-> "FileNotFoundError", value |-> None]
    ELSE [error |-> None, value |-> IF fs.misc_dir THEN "misc" ELSE None]

find_etc_folder(fs) ==
    IF ~fs.diagfiles THEN [error |-> "FileNotFoundError", value |-> None]
    ELSE [error |-> None, value |-> IF fs.etc_dir THEN "etc/pwx" ELSE None]

(***************************************************************************)
(* stream_file                                                             *)
(*                                                                         *)
(* re.search is modelled for the patterns the inputs use: literal text     *)
(* with an optional leading "^"; a pattern holding "[" is an unterminated  *)
(* character set, which re.search rejects with re.error.  The pager named   *)
(* by less / more is taken to be installed and to read all of its input.   *)
(***************************************************************************)
re_error(pattern) == contains(pattern, "[")

re_search(pattern, line) ==
    IF startswith(pattern, "^")
    THEN startswith(line, SubSeq(pattern, 2, Len(pattern)))
    ELSE contains(line, pattern)

\* json.dumps(value, indent=2) printed: the kind of value and its records
NoJson == [kind |-> "none", records |-> <<>>]

JsonArray(records) == [kind |-> "array", records |-> records]

JsonObject(record) == [kind |-> "object", records |-> <<record>>]

\* the result of a command: what it printed, what it wrote to a pager, what
\* it dumped as JSON, the file it opened and the exception it raised
Result(handler, out, pager, pager_in, json_out, opened, error) ==
    [handler |-> handler, out |-> out, pager |-> pager, pager_in |-> pager_in,
     json_out |-> json_out, opened |-> opened, error |-> error]

\* the body of the second loop of stream_file over lines[i..]
RECURSIVE stream_lines(_, _, _)
stream_lines(lines, i, pipe) ==
    IF i > Len(lines) THEN [out |-> <<>>, error |-> None]
    ELSE
      LET line == lines[i]
          truthy == pipe # None /\ pipe # ""
          skip_grep == truthy /\ startswith(pipe, "grep ")
                       /\ ~contains(line, strip(SubSeq(pipe, 6, Len(pipe))))
          is_egrep == truthy /\ ~skip_grep /\ startswith(pipe, "egrep ")
          pattern == strip(SubSeq(pipe, 7, Len(pipe)))
      IN IF skip_grep THEN stream_lines(lines, i + 1, pipe)
         ELSE IF is_egrep /\ re_error(pattern)
              THEN [out |-> <<>>, error |-> "re.error"]
         ELSE IF is_egrep /\ ~re_search(pattern, line)
              THEN stream_lines(lines, i + 1, pipe)
         ELSE LET rest == stream_lines(lines, i + 1, pipe)
              IN [out |-> <<rstrip(line)>> \o rest.out, error |-> rest.error]

stream_file(fs, dir, fname, pipe) ==
    LET err == OpenError(fs, dir, fname)
        opened == <<dir, fname>>
    IN IF pipe \in {"less", "more"}
       THEN IF err # None
            THEN Result("stream", <<>>, pipe, <<>>, NoJson, opened, err)
            ELSE Result("stream", <<>>, pipe, FileLines(fs, fname), NoJson, opened, None)
       ELSE IF err # None
            THEN Result("stream", <<>>, None, <<>>, NoJson, opened, err)
            ELSE LET r == stream_lines(FileLines(fs, fname), 1, pipe)
                 IN Result("stream", r.out, None, <<>>, NoJson, opened, r.error)

(***************************************************************************)
(* load_volumes and the renderers                                          *)
(***************************************************************************)
load_volumes(fs, misc) ==
    LET err == OpenError(fs, misc, "px-volumes.out")
    IN IF err # None THEN [error |-> err, vols |-> <<>>]
       ELSE IF fs.volumes # "ok" THEN [error |-> "JSONDecodeError", vols |-> <<>>]
       ELSE [error |-> None, vols |-> fs.dataset]

yes_no(value) == IF value THEN "yes" ELSE "no"

format_shared(v) ==
    IF v.sharedv4 THEN "v4"
    ELSE IF v.shared THEN "yes"
    ELSE "no"

\* str(x) inside an f-string without a format specification
Str(x) == IF x = None THEN "None" ELSE x

\* f"{s:w}" for a string: left-aligned, padded with spaces to width w
RECURSIVE ljust(_, _)
ljust(s, w) == IF Len(s) >= w THEN s ELSE ljust(s \o " ", w)

\* f"{n:w}" for an integer: right-aligned
RECURSIVE rjust(_, _)
rjust(s, w) == IF Len(s) >= w THEN s ELSE rjust(" " \o s, w)

LowerChars == "abcdefghijklmnopqrstuvwxyz"
UpperChars == "ABCDEFGHIJKLMNOPQRSTUVWXYZ"

UpperCh(c) ==
    IF \E i \in 1..26 : Ch(LowerChars, i) = c
    THEN Ch(UpperChars, CHOOSE i \in 1..26 : Ch(LowerChars, i) = c)
    ELSE c

\* str.upper()
RECURSIVE upper(_)
upper(s) == IF s = "" THEN "" ELSE UpperCh(Ch(s, 1)) \o upper(SubSeq(s, 2, Len(s)))

VolumeListHeader ==
    "ID                      NAME                                    "
    \o "SIZE    HA  SHARED ENCRYPTED PROXY-VOLUME IO_PRIORITY STATUS"

\* one row of volume_list; formatting None with a width raises TypeError
volume_row(v) ==
    LET state == IF v.attached_on # "" THEN "attached on " \o v.attached_on
                 ELSE "detached"
        size == human_size(v.size)
    IN IF size = None THEN [error |-> "TypeError", text |-> ""]
       ELSE [error |-> None,
             text |-> ljust(v.id, 23) \o " " \o ljust(v.name, 40) \o " "
                      \o ljust(size, 7) \o " "
                      \o rjust(ToString(v.ha_level), 3) \o " "
                      \o ljust(format_shared(v), 7) \o " "
                      \o ljust(yes_no(v.encrypted), 9) \o " "
                      \o ljust(yes_no(v.proxy_volume), 12) \o " "
                      \o ljust(upper(v.cos), 8) \o " "
                      \o v.status \o " - " \o state]

RECURSIVE volume_rows(_, _)
volume_rows(vols, i) ==
    IF i > Len(vols) THEN [out |-> <<>>, error |-> None]
    ELSE LET row == volume_row(vols[i])
         IN IF row.error # None THEN [out |-> <<>>, error |-> row.error]
            ELSE LET rest == volume_rows(vols, i + 1)
                 IN [out |-> <<row.text>> \o rest.out, error |-> rest.error]

volume_list(fs, misc) ==
    LET l == load_volumes(fs, misc)
        rows == volume_rows(l.vols, 1)
    IN IF l.error # None THEN [out |-> <<>>, error |-> l.error]
       ELSE [out |-> <<VolumeListHeader>> \o rows.out, error |-> rows.error]

RECURSIVE label_pairs(_)
label_pairs(labels) ==
    IF labels = <<>> THEN <<>>
    ELSE <<labels[1][1] \o "=" \o labels[1][2]>> \o label_pairs(Tail(labels))

Min(a, b) == IF a < b THEN a ELSE b

RECURSIVE replica_nodes(_, _)
replica_nodes(rs, j) ==
    IF j > Min(Len(rs.nodes), Len(rs.pool_uuids)) THEN <<>>
    ELSE <<"      Node           : " \o rs.nodes[j],
           "       Pool UUID     : " \o rs.pool_uuids[j]>>
         \o replica_nodes(rs, j + 1)

RECURSIVE replica_lines(_, _)
replica_lines(sets, i) ==
    IF i > Len(sets) THEN <<>>
    ELSE <<"    Set " \o ToString(i - 1)>> \o replica_nodes(sets[i], 1)
         \o replica_lines(sets, i + 1)

volume_inspect(v) ==
    <<"Volume                   :  " \o v.id,
      "Name                     :  " \o v.name,
      "Size                     :  " \o Str(human_size(v.size)),
      "Format                   :  " \o v.format,
      "HA                       :  " \o ToString(v.ha_level),
      "IO Priority              :  " \o v.cos,
      "Creation time            :  " \o v.ctime,
      "Shared                   :  " \o format_shared(v),
      "Status                   :  " \o v.status,
      "State                    :  " \o (IF v.attached_on # ""
                                         THEN "attached: " \o v.attached_on
                                         ELSE "detached"),
      "Last Attached            :  " \o v.detach_time,
      "Device Path              :  " \o v.device_path,
      "Bytes used               :  " \o Str(human_size(v.usage))>>
    \o (IF v.volume_labels # <<>>
        THEN <<"Labels                   :  " \o join(",", label_pairs(v.volume_labels))>>
        ELSE <<>>)
    \o (IF v.mount_options # <<>>
        THEN <<"Mount Options            :  " \o join(",", v.mount_options)>>
        ELSE <<>>)
    \o <<"Replica sets on nodes:">>
    \o replica_lines(v.replica_sets, 1)

(***************************************************************************)
(* main: one iteration of the loop on the stripped line cmd                *)
(***************************************************************************)
HelpTriggers == {"pxctl", "help", "?", "pxctl help", "pxctl --help"}

HelpText == "Portworx pxctl (offline diag shell)"

\* left, pipe = map(str.strip, cmd.split("|", 1)), or cmd, None
split_pipe(cmd) ==
    LET i == FindPipe(cmd, 1)
    IN IF i > 0
       THEN [left |-> strip(SubSeq(cmd, 1, i - 1)),
             pipe |-> strip(SubSeq(cmd, i + 1, Len(cmd)))]
       ELSE [left |-> cmd, pipe |-> None]

\* [v for v in vols if not vol_id or v["id"] == vol_id]
RECURSIVE select_volumes(_, _)
select_volumes(vols, vol_id) ==
    IF vols = <<>> THEN <<>>
    ELSE (IF vol_id = None \/ vols[1].id = vol_id THEN <<vols[1]>> ELSE <<>>)
         \o select_volumes(Tail(vols), vol_id)

\* next((v for v in vols if v["id"] == vol_id), None), as an index or 0
RECURSIVE find_volume(_, _, _)
find_volume(vols, vol_id, i) ==
    IF i > Len(vols) THEN 0
    ELSE IF vols[i].id = vol_id THEN i
    ELSE find_volume(vols, vol_id, i + 1)

volume_list_command(fs, misc, is_json, vol_id) ==
    LET l == load_volumes(fs, misc)
        opened == <<misc, "px-volumes.out">>
    IN IF l.error # None
       THEN Result("volume list", <<>>, None, <<>>, NoJson, opened, l.error)
       ELSE IF is_json
       THEN Result("volume list", <<>>, None, <<>>,
                   JsonArray(select_volumes(l.vols, vol_id)), opened, None)
       ELSE LET t == volume_list(fs, misc)
            IN Result("volume list", t.out, None, <<>>, NoJson, opened, t.error)

\* a variant that renders nothing when the volume is missing
volume_inspect_command_silent(fs, misc, is_json, vol_id) ==
    LET l == load_volumes(fs, misc)
        opened == <<misc, "px-volumes.out">>
        i == find_volume(l.vols, vol_id, 1)
    IN IF l.error # None
       THEN Result("volume inspect", <<>>, None, <<>>, NoJson, opened, l.error)
       ELSE IF i = 0
       THEN IF is_json
            THEN Result("volume inspect", <<>>, None, <<>>, NoJson, opened, None)
            ELSE Result("volume inspect", <<"Volume " \o Str(vol_id) \o " not found">>,
                        None, <<>>, NoJson, opened, None)
       ELSE IF is_json
       THEN Result("volume inspect", <<>>, None, <<>>, JsonObject(l.vols[i]), opened, None)
       ELSE Result("volume inspect", volume_inspect(l.vols[i]), None, <<>>, NoJson,
                   opened, None)

volume_inspect_command(fs, misc, is_json, vol_id) ==
    LET l == load_volumes(fs, misc)
        opened == <<misc, "px-volumes.out">>
        i == find_volume(l.vols, vol_id, 1)
    IN IF l.error # None
       THEN Result("volume inspect", <<>>, None, <<>>, NoJson, opened, l.error)
       ELSE IF i = 0
       THEN Result("volume inspect", <<"Volume " \o Str(vol_id) \o " not found">>,
                   None, <<>>, NoJson, opened, None)
       ELSE IF is_json
       THEN Result("volume inspect", <<>>, None, <<>>, JsonObject(l.vols[i]), opened, None)
       ELSE Result("volume inspect", volume_inspect(l.vols[i]), None, <<>>, NoJson,
                   opened, None)

NoFile == <<None, None>>

main_loop_body(cmd, fs, misc, etc) ==
    IF cmd = "" THEN Result("blank", <<>>, None, <<>>, NoJson, NoFile, None)
    ELSE IF cmd \in {"exit", "quit"}
    THEN Result("quit", <<>>, None, <<>>, NoJson, NoFile, None)
    ELSE IF cmd \in HelpTriggers
    THEN Result("help", <<HelpText>>, None, <<>>, NoJson, NoFile, None)
    ELSE
      LET sp == split_pipe(cmd)
          pc0 == parse_command(sp.left)
          base_cmd == pc0.base_cmd
      IN IF base_cmd \in {"pxctl volume list", "pxctl v l"}
         THEN volume_list_command(fs, misc, pc0.is_json, pc0.vol_id)
         ELSE IF base_cmd \in {"pxctl volume inspect", "pxctl v i"}
         THEN volume_inspect_command(fs, misc, pc0.is_json, pc0.vol_id)
         ELSE IF base_cmd \in {"pxctl config show", "pxctl config s"}
         THEN [stream_file(fs, etc, "config.json", None)
                 EXCEPT !.handler = "config show"]
         ELSE IF base_cmd \in {"pxctl clusteruuid show", "pxctl clusteruuid s"}
         THEN [stream_file(fs, etc, "cluster_uuid", None)
                 EXCEPT !.handler = "clusteruuid show"]
         ELSE IF base_cmd \in DOMAIN COMMAND_MAP
         THEN LET loc == COMMAND_MAP[base_cmd][1]
                  fname == COMMAND_MAP[base_cmd][2]
                  root == IF loc = "misc" THEN misc ELSE etc
              IN stream_file(fs, root, fname, sp.pipe)
         ELSE Result("unknown", <<"Unknown command">>, None, <<>>, NoJson, NoFile, None)

(***************************************************************************)
(* Bounds and input sets                                                   *)
(***************************************************************************)
MaxTokens == 4

MaxDigits == 6

\* the command words typed at the prompt
CommandWords ==
    {"pxctl volume list", "pxctl v l", "pxctl volume inspect", "pxctl v i",
     "pxctl config show", "pxctl config s",
     "pxctl clusteruuid show", "pxctl clusteruuid s",
     "pxctl alerts show", "pxctl a s",
     "pxctl service kvdb members", "pxctl sv k m",
     "pxctl clouddrive list", "pxctl cd l",
     "pxctl status", "lsblk", "pxctl bogus"}

\* text put before and after the command words: the flag and an identifier
ArgForms ==
    {<<"", "">>, <<"", " -j">>, <<"-j ", "">>, <<"", " 100">>,
     <<"", " -j 300">>, <<"", " 300">>}

PlainArgForms == {<<"", "">>, <<"", " -j">>}

PipeForms ==
    {" | grep beta", "|grep  alpha ", " | wc -l", " | grep", " | less -N",
     " | egrep [", " | egrep ^alpha", " | less", " | more"}

SpecialLines == {"", "   ", "exit", " quit ", "help", "pxctl", "?", "exit now"}

InputLines ==
    SpecialLines
    \cup {a[1] \o c \o a[2] : a \in ArgForms, c \in CommandWords}
    \cup {a[1] \o c \o a[2] \o p :
            a \in PlainArgForms, c \in CommandWords, p \in PipeForms}

\* tokens of the commands given to parse_command
ParseVocab == {"pxctl", "i", "-j", "100", "7", "1a"}

Separators == {" ", " \t "}

TokenLists == UNION {[1..n -> ParseVocab] : n \in 0..MaxTokens}

\* base-1024 digits of the byte counts given to human_size
DigitSamples == {0, 1, 1023}

ByteCounts ==
    {b \in UNION {[1..n -> DigitSamples] : n \in 1..MaxDigits} :
        Len(b) = 1 \/ b[1] # 0}

(***************************************************************************)
(* State                                                                   *)
(***************************************************************************)
VARIABLES
    pc,            \* position of the process
    argc,          \* len(sys.argv)
    fs,            \* the bundle inside the archive
    root_created,  \* tempfile.mkdtemp has made the extracted root
    root_exists,   \* the extracted root is on disk
    misc,          \* main's misc
    etc,           \* main's etc
    cmd,           \* main's cmd: the stripped line read last
    result,        \* what the last command did
    exit_reason,   \* why the process ended
    tokens,        \* parse_command: the tokens of the input
    sep,           \* parse_command: the whitespace between them
    parsed,        \* parse_command: the returned tuple
    bytes,         \* human_size: the argument
    sized          \* human_size: the returned value

vars == <<pc, argc, fs, root_created, root_exists, misc, etc, cmd, result,
          exit_reason, tokens, sep, parsed, bytes, sized>>

session_vars == <<pc, argc, fs, root_created, root_exists, misc, etc, cmd,
                  result, exit_reason>>

parse_vars == <<tokens, sep, parsed>>

size_vars == <<bytes, sized>>

NoResult == Result("none", <<>>, None, <<>>, NoJson, NoFile, None)

NoParse == [base_cmd |-> "", is_json |-> FALSE, vol_id |-> None]

ParseIdle == tokens = <<>> /\ sep = " " /\ parsed = NoParse

SizeIdle == bytes = <<0>> /\ sized = None

Init ==
    /\ pc = "start"
    /\ argc \in {1, 2, 3}
    /\ fs \in Bundles
    /\ argc # 2 => fs = GoodBundle
    /\ root_created = FALSE
    /\ root_exists = FALSE
    /\ misc = None
    /\ etc = None
    /\ cmd = ""
    /\ result = NoResult
    /\ exit_reason = None
    /\ ParseIdle
    /\ SizeIdle

(***************************************************************************)
(* main                                                                    *)
(***************************************************************************)
\* len(sys.argv) != 2: print the usage line and return
Usage ==
    /\ pc = "start"
    /\ argc # 2
    /\ result' = Result("usage", <<"Usage: px-diag-analyzer.py <diag.tar.gz>">>,
                        None, <<>>, NoJson, NoFile, None)
    /\ pc' = "done"
    /\ exit_reason' = "usage"
    /\ UNCHANGED <<argc, fs, root_created, root_exists, misc, etc, cmd>>
    /\ UNCHANGED <<parse_vars, size_vars>>

\* base = extract_diag(sys.argv[1]); an exception ends the process
ExtractDiag ==
    /\ pc = "start"
    /\ argc = 2
    /\ LET r == extract_diag(fs)
       IN /\ root_created' = r.created
          /\ root_exists' = r.created
          /\ IF r.error # None
             THEN /\ pc' = "done"
                  /\ exit_reason' = "startup error"
                  /\ result' = [NoResult EXCEPT !.handler = "extract_diag",
                                                !.error = r.error]
             ELSE /\ pc' = "find_misc"
                  /\ UNCHANGED <<exit_reason, result>>
    /\ UNCHANGED <<argc, fs, misc, etc, cmd>>
    /\ UNCHANGED <<parse_vars, size_vars>>

\* misc = find_misc_folder(base), outside the try block
FindMiscFolder ==
    /\ pc = "find_misc"
    /\ LET r == find_misc_folder(fs)
       IN IF r.error # None
          THEN /\ pc' = "done"
               /\ exit_reason' = "startup error"
               /\ result' = [NoResult EXCEPT !.handler = "find_misc_folder",
                                             !.error = r.error]
               /\ UNCHANGED misc
          ELSE /\ pc' = "find_etc"
               /\ misc' = r.value
               /\ UNCHANGED <<exit_reason, result>>
    /\ UNCHANGED <<argc, fs, root_created, root_exists, etc, cmd>>
    /\ UNCHANGED <<parse_vars, size_vars>>

\* etc = find_etc_folder(base), outside the try block
FindEtcFolder ==
    /\ pc = "find_etc"
    /\ LET r == find_etc_folder(fs)
       IN IF r.error # None
          THEN /\ pc' = "done"
               /\ exit_reason' = "startup error"
               /\ result' = [NoResult EXCEPT !.handler = "find_etc_folder",
                                             !.error = r.error]
               /\ UNCHANGED etc
          ELSE /\ pc' = "prompt"
               /\ etc' = r.value
               /\ UNCHANGED <<exit_reason, result>>
    /\ UNCHANGED <<argc, fs, root_created, root_exists, misc, cmd>>
    /\ UNCHANGED <<parse_vars, size_vars>>

\* cmd = input("pxctl> ").strip()
ReadLine ==
    /\ pc = "prompt"
    /\ \E l \in InputLines : cmd' = strip(l)
    /\ pc' = "dispatch"
    /\ result' = NoResult
    /\ UNCHANGED <<argc, fs, root_created, root_exists, misc, etc, exit_reason>>
    /\ UNCHANGED <<parse_vars, size_vars>>

\* input() raises EOFError; the finally clause removes the root
EndOfInput ==
    /\ pc = "prompt"
    /\ pc' = "done"
    /\ exit_reason' = "eof"
    /\ result' = [NoResult EXCEPT !.handler = "input", !.error = "EOFError"]
    /\ root_exists' = FALSE
    /\ UNCHANGED <<argc, fs, root_created, misc, etc, cmd>>
    /\ UNCHANGED <<parse_vars, size_vars>>

\* the rest of one loop iteration, for the branch named handler: a normal
\* end goes back to the prompt, break and an exception leave through finally
Command(handler) ==
    /\ pc = "dispatch"
    /\ LET r == main_loop_body(cmd, fs, misc, etc)
       IN /\ r.handler = handler
          /\ result' = r
          /\ IF r.error # None
             THEN /\ pc' = "done"
                  /\ exit_reason' = "exception"
                  /\ root_exists' = FALSE
             ELSE IF handler = "quit"
             THEN /\ pc' = "done"
                  /\ exit_reason' = "quit"
                  /\ root_exists' = FALSE
             ELSE /\ pc' = "prompt"
                  /\ UNCHANGED <<exit_reason, root_exists>>
    /\ UNCHANGED <<argc, fs, root_created, misc, etc, cmd>>
    /\ UNCHANGED <<parse_vars, size_vars>>

BlankLine ==
    /\ pc = "dispatch"
    /\ Command("blank")

Quit ==
    /\ pc = "dispatch"
    /\ Command("quit")

Help ==
    /\ pc = "dispatch"
    /\ Command("help")

VolumeList ==
    /\ pc = "dispatch"
    /\ Command("volume list")

VolumeInspect ==
    /\ pc = "dispatch"
    /\ Command("volume inspect")

ConfigShow ==
    /\ pc = "dispatch"
    /\ Command("config show")

ClusterUuidShow ==
    /\ pc = "dispatch"
    /\ Command("clusteruuid show")

StreamCommand ==
    /\ pc = "dispatch"
    /\ Command("stream")

UnknownCommand ==
    /\ pc = "dispatch"
    /\ Command("unknown")

Next ==
    \/ Usage
    \/ ExtractDiag
    \/ FindMiscFolder
    \/ FindEtcFolder
    \/ ReadLine
    \/ EndOfInput
    \/ BlankLine
    \/ Quit
    \/ Help
    \/ VolumeList
    \/ VolumeInspect
    \/ ConfigShow
    \/ ClusterUuidShow
    \/ StreamCommand
    \/ UnknownCommand

Spec == Init /\ [][Next]_vars

(***************************************************************************)
(* parse_command applied to bounded token lists                            *)
(***************************************************************************)
SessionIdle ==
    /\ argc = 2
    /\ fs = GoodBundle
    /\ root_created = FALSE
    /\ root_exists = FALSE
    /\ misc = None
    /\ etc = None
    /\ cmd = ""
    /\ result = NoResult
    /\ exit_reason = None

InitParse ==
    /\ pc = "parse"
    /\ tokens \in TokenLists
    /\ sep \in Separators
    /\ parsed = NoParse
    /\ SessionIdle
    /\ SizeIdle

ParseCommand ==
    /\ pc = "parse"
    /\ parsed' = parse_command(join(sep, tokens))
    /\ pc' = "parsed"
    /\ UNCHANGED <<argc, fs, root_created, root_exists, misc, etc, cmd, result,
                   exit_reason, tokens, sep>>
    /\ UNCHANGED size_vars

NextParse == ParseCommand

SpecParse == InitParse /\ [][NextParse]_vars

(***************************************************************************)
(* human_size applied to bounded byte counts                               *)
(***************************************************************************)
InitSize ==
    /\ pc = "size"
    /\ bytes \in ByteCounts
    /\ sized = None
    /\ SessionIdle
    /\ ParseIdle

HumanSize ==
    /\ pc = "size"
    /\ sized' = human_size(bytes)
    /\ pc' = "sized"
    /\ UNCHANGED <<argc, fs, root_created, root_exists, misc, etc, cmd, result,
                   exit_reason, bytes>>
    /\ UNCHANGED parse_vars

NextSize == HumanSize

SpecSize == InitSize /\ [][NextSize]_vars

(***************************************************************************)
(* Properties                                                              *)
(***************************************************************************)
\* a command has been dispatched and result is what it did
Executed ==
    /\ pc \in {"prompt", "done"}
    /\ result.handler \in {"blank", "quit", "help", "volume list",
                           "volume inspect", "config show",
                           "clusteruuid show", "stream", "unknown"}

IsJ(t) == t = "-j"

NonJ(t) == t # "-j"

PlainToken(t) == t # "-j" /\ ~isdigit(t)

FirstOrNone(ts) == IF ts = <<>> THEN None ELSE ts[1]

\* C1: the loop of main ends only on exit, quit or end-of-input; a failing
\* command reports its failure and the session reads the next line.
C1_LoopEndsOnlyOnExitOrEof ==
    (pc = "done" /\ exit_reason \notin {"usage", "startup error"})
        => exit_reason \in {"quit", "eof"}

\* C2: whenever the process has ended and the extracted root directory was
\* created, the directory has been removed.
C2_RootRemovedAtEnd ==
    (pc = "done" /\ root_created) => ~root_exists

\* the number a byte count stands for (used below 2^31 only)
RECURSIVE DigitsValue(_)
DigitsValue(b) ==
    IF Len(b) = 1 THEN b[1]
    ELSE DigitsValue(SubSeq(b, 1, Len(b) - 1)) * 1024 + b[Len(b)]

ExpectedHumanSize(b) ==
    LET k == IF Len(b) - 1 < 4 THEN Len(b) - 1 ELSE 4
    IN ToString(DigitsValue(SubSeq(b, 1, Len(b) - k))) \o " " \o Units[k + 1]

\* C3: human_size(b) is "<n> <unit>" where n is b after k truncating
\* divisions by 1024, k the smallest count with n < 1024 and at most 4, so
\* that any b >= 1024^5 gives "<b div 1024^4> TiB".
C3_HumanSizeValue ==
    pc = "sized" => sized = ExpectedHumanSize(bytes)

\* the tokens with the first digit-only one taken out
RECURSIVE WithoutFirstDigitToken(_)
WithoutFirstDigitToken(ts) ==
    IF ts = <<>> THEN <<>>
    ELSE IF isdigit(ts[1]) THEN Tail(ts)
    ELSE <<ts[1]>> \o WithoutFirstDigitToken(Tail(ts))

SupportedFilter(pipe) ==
    \/ pipe \in {"less", "more"}
    \/ startswith(pipe, "grep ") /\ strip(SubSeq(pipe, 6, Len(pipe))) # ""
    \/ startswith(pipe, "egrep ") /\ strip(SubSeq(pipe, 7, Len(pipe))) # ""

ArtifactLines(r) ==
    IF r.opened[1] = None \/ r.opened[2] \in fs.absent THEN {}
    ELSE {rstrip(FileLines(fs, r.opened[2])[i]) :
            i \in 1..Len(FileLines(fs, r.opened[2]))}

\* C5: when the text after the first pipe is not grep <term>,
\* egrep <pattern>, less or more, no line of the resolved artifact is
\* emitted, neither printed nor handed to a pager.
C5_UnsupportedFilterRejected ==
    LET sp == split_pipe(cmd)
    IN (Executed /\ result.handler = "stream"
        /\ sp.pipe # None /\ ~SupportedFilter(sp.pipe))
       => /\ \A i \in 1..Len(result.out) : result.out[i] \notin ArtifactLines(result)
          /\ result.pager_in = <<>>

RECURSIVE GrepLines(_, _)
GrepLines(lines, term) ==
    IF lines = <<>> THEN <<>>
    ELSE (IF contains(lines[1], term) THEN <<rstrip(lines[1])>> ELSE <<>>)
         \o GrepLines(Tail(lines), term)

\* C6: for every command that streams an artifact (the command table and
\* also config show and clusteruuid show), a trailing | grep <term> makes
\* the output exactly the artifact's lines that contain the term, in order.
C6_GrepFiltersStreamedText ==
    LET sp == split_pipe(cmd)
    IN (Executed /\ result.error = None
        /\ result.handler \in {"stream", "config show", "clusteruuid show"}
        /\ sp.pipe # None /\ startswith(sp.pipe, "grep "))
       => result.out = GrepLines(FileLines(fs, result.opened[2]),
                                 strip(SubSeq(sp.pipe, 6, Len(sp.pipe))))

\* C7: with one or more -j tokens inserted at any positions, parse_command
\* returns the base command and the identifier it returns for the tokens
\* without them, reports json as requested, and the base holds no -j token.
C7_JFlagRemoval ==
    (pc = "parsed" /\ SelectSeq(tokens, IsJ) # <<>>) =>
        LET plain == parse_command(join(" ", SelectSeq(tokens, NonJ)))
        IN /\ parsed.base_cmd = plain.base_cmd
           /\ parsed.vol_id = plain.vol_id
           /\ parsed.is_json
           /\ ~plain.is_json
           /\ SelectSeq(split(parsed.base_cmd), IsJ) = <<>>

C7_Witness ==
    /\ pc = "parsed"
    /\ Len(tokens) >= 4
    /\ tokens[1] = "-j" /\ tokens[2] = "pxctl" /\ tokens[3] = "-j"
    /\ tokens[4] = "100"
    /\ parsed = [base_cmd |-> "pxctl", is_json |-> TRUE, vol_id |-> "100"]

\* the abbreviated and the full form of each command that has both
AliasPairs ==
    {<<"pxctl v l", "pxctl volume list">>,
     <<"pxctl v i", "pxctl volume inspect">>,
     <<"pxctl sv k m", "pxctl service kvdb members">>,
     <<"pxctl a s", "pxctl alerts show">>,
     <<"pxctl cd l", "pxctl clouddrive list">>,
     <<"pxctl config s", "pxctl config show">>,
     <<"pxctl clusteruuid s", "pxctl clusteruuid show">>}

\* every typed line holding an abbreviation, with the same line in full form
AliasLines ==
    {<<strip(a[1] \o pr[1] \o a[2] \o p), strip(a[1] \o pr[2] \o a[2] \o p)>> :
        a \in ArgForms, pr \in AliasPairs, p \in PipeForms \cup {""}}

\* C8: an abbreviated command does what its full form does with the same
\* flag, identifier and filter: same handler, same artifact, same output.
C8_AliasEquivalence ==
    Executed =>
        \A al \in AliasLines :
            cmd = al[1] => result = main_loop_body(al[2], fs, misc, etc)

C8_Witness ==
    /\ pc = "prompt"
    /\ cmd = "pxctl a s -j | grep beta"
    /\ result.handler = "stream"
    /\ result.opened = <<"misc", "px-alerts.out">>
    /\ result.out = <<"beta gamma", "alpha beta">>

\* the words of the command before the pipe, without flag and identifier
CommandTokens == SelectSeq(split(split_pipe(cmd).left), PlainToken)

GivenId == FirstOrNone(SelectSeq(split(split_pipe(cmd).left), isdigit))

DatasetLoaded ==
    misc # None /\ "px-volumes.out" \notin fs.absent /\ fs.volumes = "ok"

\* C9: volume inspection (either form, with or without -j) of an identifier
\* that no record of the loaded dataset has prints exactly the line
\* "Volume <id> not found", renders nothing and returns to the prompt.
C9_VolumeNotFound ==
    (/\ Executed
     /\ CommandTokens \in {<<"pxctl", "volume", "inspect">>, <<"pxctl", "v", "i">>}
     /\ DatasetLoaded
     /\ GivenId # None
     /\ \A i \in 1..Len(fs.dataset) : fs.dataset[i].id # GivenId)
    => /\ result.out = <<"Volume " \o GivenId \o " not found">>
       /\ result.json_out = NoJson
       /\ result.pager_in = <<>>
       /\ result.error = None
       /\ pc = "prompt"

C9_Witness ==
    /\ pc = "prompt"
    /\ cmd = "pxctl volume inspect -j 300"
    /\ fs.dataset # <<>>
    /\ result.out = <<"Volume 300 not found">>

\* C10: pxctl alerts show -j and pxctl a s -j stream px-alerts-show.out,
\* the artifact the command table lists for them.
C10_AlertsShowJsonArtifact ==
    (Executed /\ cmd \in {"pxctl alerts show -j", "pxctl a s -j"})
        => result.opened[2] = "px-alerts-show.out"

====
